---- MODULE Spec2Model ----
(***************************************************************************)
(* Temperature logger: the 24FC256 EEPROM driver (EEPROM24FC256), the I2C  *)
(* controller interface it talks to (II2CController), and the mock bus and *)
(* mock EEPROM device (MockI2C, MockEEPROM) that the firmware is built     *)
(* against.                                                                *)
(*                                                                         *)
(* A float is modelled as a rational <<numerator, denominator>> with a     *)
(* positive denominator; a byte buffer as a sequence of 0..255.            *)
(***************************************************************************)
EXTENDS Integers, Sequences, FiniteSets, TLC

VARIABLES
    bus,                \* which II2CController implementation m_i2c refers to
    m_address,          \* EEPROM24FC256::m_address
    pc,                 \* position of the single thread of control
    memAddr,            \* argument of the current / last driver call
    temp,               \* argument of the current / last LogData call
    payload,            \* LogData's local payload[4]
    wstatus,            \* status returned by LogData's data write
    attempt,            \* WaitForWriteComplete's loop counter
    ret,                \* value returned by the last driver call
    tx,                 \* last bus transaction issued by the current call
    nTx,                \* bus transactions issued by the current call
    nProbe,             \* zero-length writes issued by the current call
    m_memory,           \* MockEEPROM::m_memory (bytes that differ from 0xFF)
    m_writeInProgress,  \* MockEEPROM::m_writeInProgress
    m_writeCycleCount,  \* MockEEPROM::m_writeCycleCount
    m_writeAddress,     \* MockEEPROM::m_writeAddress
    logged,             \* address -> value of the last LogData the mock bus accepted
    mpc,                \* main(): position of the thread of control
    step,               \* seconds by which a harness advances the MockTimer between polls (0: nobody does)
    stepped,            \* the harness has advanced the timer since the last poll
    m_tickCount,        \* MockTimer::m_tickCount
    currentTime,        \* main(): currentTime
    lastLogTime,        \* main(): lastLogTime
    eepromAddress,      \* main(): eepromAddress
    g_sampleCount,      \* g_sampleCount
    temperature,        \* main(): temperature of the last log cycle
    g_readSuccess,      \* g_readSuccess
    g_writeSuccess,     \* g_writeSuccess
    g_status,           \* g_status
    cDone,              \* codec: the codec has been applied to cIn
    cAddr,              \* codec: the memory address the payload is built for
    cIn,                \* codec: the value handed to EncodeTemperature
    cEnc,               \* codec: the int16_t it returned
    cWire,              \* codec: the payload[4] put on the wire
    cBack,              \* codec: the int16_t ReadData reassembles from its two data bytes
    cDec,               \* codec: the value DecodeTemperature returned for cEnc
    m_configCache,      \* TMP100::m_configCache
    rawData,            \* TMP100::ReadTemperature's local rawData[2]
    g_initSuccess       \* g_initSuccess

driverVars == <<pc, memAddr, temp, payload, wstatus, attempt, ret>>
busVars    == <<tx, nTx, nProbe>>
mockVars   == <<m_memory, m_writeInProgress, m_writeCycleCount, m_writeAddress>>
mainVars   == <<mpc, step, stepped, m_tickCount, currentTime, lastLogTime, eepromAddress,
                g_sampleCount, temperature, g_readSuccess, g_writeSuccess, g_status>>
codecVars  == <<cDone, cAddr, cIn, cEnc, cWire, cBack, cDec>>
sensorVars == <<m_configCache, rawData, g_initSuccess>>
vars       == <<bus, m_address, driverVars, busVars, mockVars, logged, mainVars, codecVars,
                sensorVars>>

---------------------------------------------------------------------------
(* Program constants *)

CAPACITY == 32768

PAGE_SIZE == 64

maxAttempts == 100

EEPROM_I2C_ADDR == 80

TMP100_I2C_ADDR == 72

I2CStatus == {"OK", "Error", "Nack", "Timeout"}

\* mutant: the sentinel is a temperature of the sensor range (22.5)
Sentinel_InRange == <<45, 2>>

Sentinel == <<-999, 1>>

---------------------------------------------------------------------------
(* Inputs *)

\* uint16_t addresses handed to LogData / ReadData
Addrs == {0, 61, 62, 63, 32766, 32767, 65534}

\* temperatures: 22.5, -0.03125, -25.0625, and -999.0, the value of the sentinel
Temps == {<<45, 2>>, <<-1, 32>>, <<-401, 16>>, <<-999, 1>>}

\* bytes an arbitrary transport may deliver in a read phase
RxBytes == {0, 255}

Buses == {"MockI2C", "Any"}

DevAddrs == {EEPROM_I2C_ADDR, TMP100_I2C_ADDR}

---------------------------------------------------------------------------
(* Integer helpers *)

\* mutant: the conversion rounds down (floor) instead of toward zero
TruncDiv_Floor(a, b) == a \div b

\* C++ integer conversion of a / b: truncation toward zero (b > 0)
TruncDiv(a, b) == IF a >= 0 THEN a \div b ELSE -((-a) \div b)

ToUint16(x) == x % 65536

\* mutant: the 16-bit value is not taken as signed
ToInt16_Unsigned(x) == x % 65536

ToInt16(x) == IF (x % 65536) >= 32768 THEN (x % 65536) - 65536 ELSE x % 65536

HighByte(x) == (ToUint16(x) \div 256) % 256

LowByte(x) == x % 256

\* equality of two floats given as rationals
RatEq(p, q) == p[1] * q[2] = q[1] * p[2]

\* the float is an exact multiple of 1/16
IsSixteenth(v) == (v[1] * 16) % v[2] = 0

---------------------------------------------------------------------------
(* FixedPointCodec *)

EncodeTemperature(t) == TruncDiv(t[1] * 16, t[2])

DecodeTemperature(encoded) == <<encoded, 16>>

---------------------------------------------------------------------------
(* MockEEPROM: the simulated 24FC256 device *)

\* m_memory[a]; the constructor fills the array with 0xFF
Mem(a) == IF a \in DOMAIN m_memory THEN m_memory[a] ELSE 255

\* mutant: the store loop runs one byte too far
MemStore_OneTooFar(addr, bytes) ==
    [a \in (DOMAIN m_memory) \cup (addr .. (addr + Len(bytes))) |->
        IF a >= addr /\ a < addr + Len(bytes) THEN bytes[a - addr + 1]
        ELSE IF a = addr + Len(bytes) THEN 0
        ELSE m_memory[a]]

\* m_memory after storing the bytes `bytes` at addr, addr+1, ...
MemStore(addr, bytes) ==
    [a \in (DOMAIN m_memory) \cup (addr .. (addr + Len(bytes) - 1)) |->
        IF a >= addr /\ a < addr + Len(bytes) THEN bytes[a - addr + 1] ELSE m_memory[a]]

\* mutant: the cycle ends one access later
MockBusyStep_OneMore ==
    /\ IF m_writeCycleCount + 1 > 5
         THEN m_writeInProgress' = FALSE /\ m_writeCycleCount' = 0
         ELSE m_writeInProgress' = TRUE /\ m_writeCycleCount' = m_writeCycleCount + 1
    /\ UNCHANGED <<m_memory, m_writeAddress>>

\* the branch taken while m_writeInProgress: count the access, end the cycle on the 5th
MockBusyStep ==
    /\ IF m_writeCycleCount + 1 >= 5
         THEN m_writeInProgress' = FALSE /\ m_writeCycleCount' = 0
         ELSE m_writeInProgress' = TRUE /\ m_writeCycleCount' = m_writeCycleCount + 1
    /\ UNCHANGED <<m_memory, m_writeAddress>>

\* mutant: a data write that arrives during the write cycle is stored all the same
MockEEPROM_Write_BusyStores(d, st) ==
    IF m_writeInProgress
      THEN /\ st = "Nack"
           /\ IF Len(d) > 2 /\ d[1] * 256 + d[2] + (Len(d) - 2) <= CAPACITY
                THEN /\ m_memory' = MemStore(d[1] * 256 + d[2], SubSeq(d, 3, Len(d)))
                     /\ m_writeInProgress' = (m_writeCycleCount + 1 < 5)
                     /\ m_writeCycleCount' = IF m_writeCycleCount + 1 >= 5 THEN 0 ELSE m_writeCycleCount + 1
                     /\ UNCHANGED m_writeAddress
                ELSE MockBusyStep
    ELSE IF Len(d) < 2
      THEN st = "Nack" /\ UNCHANGED mockVars
    ELSE LET addr == d[1] * 256 + d[2]
             bytes == SubSeq(d, 3, Len(d))
         IN  IF Len(d) > 2
               THEN IF addr + Len(bytes) > CAPACITY
                      THEN st = "Nack" /\ UNCHANGED mockVars
                      ELSE /\ st = "OK"
                           /\ m_memory' = MemStore(addr, bytes)
                           /\ m_writeInProgress' = TRUE
                           /\ m_writeCycleCount' = 0
                           /\ m_writeAddress' = addr
               ELSE st = "OK" /\ UNCHANGED mockVars

\* mutant: the bounds test lets a write run one byte past the end
MockEEPROM_Write_BoundsOffByOne(d, st) ==
    IF m_writeInProgress
      THEN st = "Nack" /\ MockBusyStep
    ELSE IF Len(d) < 2
      THEN st = "Nack" /\ UNCHANGED mockVars
    ELSE LET addr == d[1] * 256 + d[2]
             bytes == SubSeq(d, 3, Len(d))
         IN  IF Len(d) > 2
               THEN IF addr + Len(bytes) > CAPACITY + 1
                      THEN st = "Nack" /\ UNCHANGED mockVars
                      ELSE /\ st = "OK"
                           /\ m_memory' = MemStore(addr, bytes)
                           /\ m_writeInProgress' = TRUE
                           /\ m_writeCycleCount' = 0
                           /\ m_writeAddress' = addr
               ELSE st = "OK" /\ UNCHANGED mockVars

\* MockEEPROM::Write(data, len) returning st
MockEEPROM_Write(d, st) ==
    IF m_writeInProgress
      THEN st = "Nack" /\ MockBusyStep
    ELSE IF Len(d) < 2
      THEN st = "Nack" /\ UNCHANGED mockVars
    ELSE LET addr == d[1] * 256 + d[2]
             bytes == SubSeq(d, 3, Len(d))
         IN  IF Len(d) > 2
               THEN IF addr + Len(bytes) > CAPACITY
                      THEN st = "Nack" /\ UNCHANGED mockVars
                      ELSE /\ st = "OK"
                           /\ m_memory' = MemStore(addr, bytes)
                           /\ m_writeInProgress' = TRUE
                           /\ m_writeCycleCount' = 0
                           /\ m_writeAddress' = addr
               ELSE st = "OK" /\ UNCHANGED mockVars

\* MockEEPROM::Read(txData, txLen, rxBuffer, rxLen) returning st and filling rx
MockEEPROM_Read(t, rxLen, st, rx) ==
    IF m_writeInProgress
      THEN st = "Nack" /\ rx = <<0, 0>> /\ MockBusyStep
    ELSE IF Len(t) < 2
      THEN st = "Nack" /\ rx = <<0, 0>> /\ UNCHANGED mockVars
    ELSE LET addr == t[1] * 256 + t[2]
         IN  IF addr + rxLen > CAPACITY
               THEN st = "Nack" /\ rx = <<0, 0>> /\ UNCHANGED mockVars
               ELSE /\ st = "OK"
                    /\ rx = [i \in 1 .. rxLen |-> Mem(addr + i - 1)]
                    /\ UNCHANGED mockVars

---------------------------------------------------------------------------
(* II2CController: MockI2C, or any other implementation of the interface *)

\* MockI2C::Write(addr, data, len)
MockI2C_Write(dev, d, st) ==
    IF dev = EEPROM_I2C_ADDR
      THEN MockEEPROM_Write(d, st)
      ELSE st = "Nack" /\ UNCHANGED mockVars

\* MockI2C::WriteRead(addr, tx, txLen, rx, rxLen)
MockI2C_WriteRead(dev, t, rxLen, st, rx) ==
    IF dev = EEPROM_I2C_ADDR
      THEN MockEEPROM_Read(t, rxLen, st, rx)
      ELSE st = "Nack" /\ rx = <<0, 0>> /\ UNCHANGED mockVars

\* m_i2c.Write(dev, d, Len(d)) through the virtual interface
BusWrite(dev, d, st) ==
    IF bus = "MockI2C"
      THEN MockI2C_Write(dev, d, st)
      ELSE st \in I2CStatus /\ UNCHANGED mockVars

\* m_i2c.WriteRead(dev, t, Len(t), rx, rxLen) through the virtual interface
BusWriteRead(dev, t, rxLen, st, rx) ==
    IF bus = "MockI2C"
      THEN MockI2C_WriteRead(dev, t, rxLen, st, rx)
      ELSE /\ st \in I2CStatus
           /\ IF st = "OK" THEN rx \in [1 .. rxLen -> RxBytes] ELSE rx = <<0, 0>>
           /\ UNCHANGED mockVars

NoTx == [op |-> "none", addr |-> 0, data |-> <<>>, rxLen |-> 0, status |-> "none"]

WriteTx(dev, d, st) == [op |-> "Write", addr |-> dev, data |-> d, rxLen |-> 0, status |-> st]

WriteReadTx(dev, t, n, st) == [op |-> "WriteRead", addr |-> dev, data |-> t, rxLen |-> n, status |-> st]

---------------------------------------------------------------------------
(* EEPROM24FC256 *)

\* the driver object and the mock device after construction
DriverInit ==
    /\ pc = "idle"
    /\ memAddr = 0
    /\ temp = <<0, 1>>
    /\ payload = <<>>
    /\ wstatus = "none"
    /\ attempt = 0
    /\ ret = [op |-> "none"]
    /\ tx = NoTx
    /\ nTx = 0
    /\ nProbe = 0
    /\ m_memory = [a \in {} |-> 255]
    /\ m_writeInProgress = FALSE
    /\ m_writeCycleCount = 0
    /\ m_writeAddress = 0
    /\ logged = [a \in {} |-> <<0, 1>>]

\* main() has not been entered
MainOff ==
    /\ mpc = "off"
    /\ step = 0
    /\ stepped = FALSE
    /\ m_tickCount = 0
    /\ currentTime = 0
    /\ lastLogTime = 0
    /\ eepromAddress = 0
    /\ g_sampleCount = 0
    /\ temperature = <<0, 1>>
    /\ g_readSuccess = FALSE
    /\ g_writeSuccess = FALSE
    /\ g_status = "Starting..."

\* no TMP100 object has been used
SensorOff ==
    /\ m_configCache = 0
    /\ rawData = <<0, 0>>
    /\ g_initSuccess = FALSE

\* the codec has not been applied
CodecOff ==
    /\ cDone = FALSE
    /\ cAddr = 0
    /\ cIn = <<0, 1>>
    /\ cEnc = 0
    /\ cWire = <<0, 0, 0, 0>>
    /\ cBack = 0
    /\ cDec = <<0, 16>>

Init ==
    /\ bus \in Buses
    /\ m_address \in DevAddrs
    /\ DriverInit
    /\ MainOff
    /\ CodecOff
    /\ SensorOff

\* mutant: the capacity test off by one (a + 1 instead of a + 2)
CapacityExceeded_OffByOne(a) == a + 1 > CAPACITY

\* the capacity test of LogData: true when the write is rejected
CapacityExceeded(a) == a + 2 > CAPACITY

\* mutant: the page test without the end-of-store exemption
PageBoundaryViolation_NoExemption(a) ==
    (a \div PAGE_SIZE) # (ToUint16(a + 2) \div PAGE_SIZE)

\* mutant: the page test with the end-of-store comparison inverted
PageBoundaryViolation_Inverted(a) ==
    ((a \div PAGE_SIZE) # (ToUint16(a + 2) \div PAGE_SIZE)) /\ (ToUint16(a + 2) > CAPACITY)

\* the page test of LogData, in uint16_t arithmetic: true when the write is rejected
PageBoundaryViolation(a) ==
    LET pageNumber     == a \div PAGE_SIZE
        endAddr        == ToUint16(a + 2)
        nextPageNumber == endAddr \div PAGE_SIZE
    IN  (pageNumber # nextPageNumber) /\ (endAddr < CAPACITY)

\* mutant: the two data bytes in little-endian order
Payload_LittleEndian(a, encoded) == <<HighByte(a), LowByte(a), LowByte(encoded), HighByte(encoded)>>

\* the payload[4] LogData builds
Payload(a, encoded) == <<HighByte(a), LowByte(a), HighByte(encoded), LowByte(encoded)>>

\* mutant: the bounds test of ReadData off by one
ReadOutOfBounds_OffByOne(a) == a >= CAPACITY

\* the int16_t ReadData reassembles from the two bytes it received
Reassemble(rx) == ToInt16(rx[1] * 256 + rx[2])

\* the bounds test of ReadData: true when the read is rejected
ReadOutOfBounds(a) == a >= CAPACITY - 1

\* mutant: the loop runs one time too many
PollAgain_OffByOne(n) == n <= maxAttempts

\* mutant: the wait gives up after 4 attempts, fewer than the mock's cycle takes
PollAgain_FourAttempts(n) == n < 4

\* the loop condition of WaitForWriteComplete
PollAgain(n) == n < maxAttempts

Return(op, v) == pc' = "idle" /\ ret' = [op |-> op, val |-> v]

\* mutant: the data write is issued before the address is validated
LogData_WriteBeforeValidate(a, t) ==
    /\ pc = "idle"
    /\ memAddr' = a
    /\ temp' = t
    /\ attempt' = 0
    /\ nTx' = 1
    /\ nProbe' = 0
    /\ payload' = Payload(a, EncodeTemperature(t))
    /\ \E st \in I2CStatus :
         /\ BusWrite(m_address, Payload(a, EncodeTemperature(t)), st)
         /\ tx' = WriteTx(m_address, Payload(a, EncodeTemperature(t)), st)
         /\ wstatus' = st
         /\ IF CapacityExceeded(a) \/ PageBoundaryViolation(a) \/ st # "OK"
              THEN Return("LogData", FALSE)
              ELSE pc' = "Wait_Probe" /\ UNCHANGED ret
    /\ UNCHANGED <<bus, m_address>>

\* LogData(memAddr, temp): entry, the two validations, encoding
LogData(a, t) ==
    /\ pc = "idle"
    /\ memAddr' = a
    /\ temp' = t
    /\ wstatus' = "none"
    /\ attempt' = 0
    /\ tx' = NoTx
    /\ nTx' = 0
    /\ nProbe' = 0
    /\ IF CapacityExceeded(a) \/ PageBoundaryViolation(a)
         THEN Return("LogData", FALSE) /\ payload' = <<>>
         ELSE /\ payload' = Payload(a, EncodeTemperature(t))
              /\ pc' = "LogData_Write"
              /\ UNCHANGED ret
    /\ UNCHANGED <<bus, m_address, mockVars>>

\* mutant: the status of the data write is not tested
LogDataWrite_IgnoreStatus ==
    /\ pc = "LogData_Write"
    /\ \E st \in I2CStatus :
         /\ BusWrite(m_address, payload, st)
         /\ tx' = WriteTx(m_address, payload, st)
         /\ wstatus' = st
    /\ pc' = "Wait_Probe"
    /\ nTx' = nTx + 1
    /\ UNCHANGED <<bus, m_address, memAddr, temp, payload, attempt, nProbe, ret>>

\* LogData: m_i2c.Write(m_address, payload, 4) and the test of its status
LogDataWrite ==
    /\ pc = "LogData_Write"
    /\ \E st \in I2CStatus :
         /\ BusWrite(m_address, payload, st)
         /\ tx' = WriteTx(m_address, payload, st)
         /\ wstatus' = st
         /\ IF st # "OK"
              THEN Return("LogData", FALSE)
              ELSE pc' = "Wait_Probe" /\ UNCHANGED ret
    /\ nTx' = nTx + 1
    /\ UNCHANGED <<bus, m_address, memAddr, temp, payload, attempt, nProbe>>

\* mutant: the wait does not stop at an OK
WaitProbe_IgnoreOk ==
    /\ pc = "Wait_Probe"
    /\ PollAgain(attempt)
    /\ \E st \in I2CStatus :
         /\ BusWrite(m_address, <<>>, st)
         /\ tx' = WriteTx(m_address, <<>>, st)
    /\ pc' = "Wait_Delay"
    /\ nTx' = nTx + 1
    /\ nProbe' = nProbe + 1
    /\ UNCHANGED <<bus, m_address, memAddr, temp, payload, wstatus, attempt, ret>>

\* WaitForWriteComplete: one zero-length write; OK ends the wait and LogData returns true
WaitProbe ==
    /\ pc = "Wait_Probe"
    /\ PollAgain(attempt)
    /\ \E st \in I2CStatus :
         /\ BusWrite(m_address, <<>>, st)
         /\ tx' = WriteTx(m_address, <<>>, st)
         /\ IF st = "OK"
              THEN Return("LogData", TRUE)
              ELSE pc' = "Wait_Delay" /\ UNCHANGED ret
    /\ nTx' = nTx + 1
    /\ nProbe' = nProbe + 1
    /\ UNCHANGED <<bus, m_address, memAddr, temp, payload, wstatus, attempt>>

\* WaitForWriteComplete: the busy-wait delay (a loop of 1000 iterations over a
\* volatile counter, taken as one step), then attempt++
WaitDelay ==
    /\ pc = "Wait_Delay"
    /\ attempt' = attempt + 1
    /\ pc' = "Wait_Probe"
    /\ UNCHANGED <<bus, m_address, memAddr, temp, payload, wstatus, ret, busVars, mockVars>>

\* mutant: exhausting the wait is reported as a failed write
WaitExhausted_ReturnsFalse ==
    /\ pc = "Wait_Probe"
    /\ ~PollAgain(attempt)
    /\ Return("LogData", FALSE)
    /\ UNCHANGED <<bus, m_address, memAddr, temp, payload, wstatus, attempt, busVars, mockVars>>

\* WaitForWriteComplete: the loop ends without an OK; LogData returns true
WaitExhausted ==
    /\ pc = "Wait_Probe"
    /\ ~PollAgain(attempt)
    /\ Return("LogData", TRUE)
    /\ UNCHANGED <<bus, m_address, memAddr, temp, payload, wstatus, attempt, busVars, mockVars>>

\* ReadData(memAddr): entry and the bounds test
ReadData(a) ==
    /\ pc = "idle"
    /\ memAddr' = a
    /\ wstatus' = "none"
    /\ attempt' = 0
    /\ payload' = <<>>
    /\ tx' = NoTx
    /\ nTx' = 0
    /\ nProbe' = 0
    /\ IF ReadOutOfBounds(a)
         THEN Return("ReadData", Sentinel)
         ELSE pc' = "ReadData_WriteRead" /\ UNCHANGED ret
    /\ UNCHANGED <<bus, m_address, temp, mockVars>>

\* mutant: the status of the WriteRead is not tested
ReadDataWriteRead_IgnoreStatus ==
    /\ pc = "ReadData_WriteRead"
    /\ LET addrBytes == <<HighByte(memAddr), LowByte(memAddr)>>
       IN  \E st \in I2CStatus, rx \in [1 .. 2 -> RxBytes \cup {Mem(memAddr), Mem(memAddr + 1)}] \cup {<<0, 0>>} :
             /\ BusWriteRead(m_address, addrBytes, 2, st, rx)
             /\ tx' = WriteReadTx(m_address, addrBytes, 2, st)
             /\ Return("ReadData", DecodeTemperature(Reassemble(rx)))
    /\ nTx' = nTx + 1
    /\ UNCHANGED <<bus, m_address, memAddr, temp, payload, wstatus, attempt, nProbe>>

\* ReadData: the WriteRead transaction, the test of its status, decoding
ReadDataWriteRead ==
    /\ pc = "ReadData_WriteRead"
    /\ LET addrBytes == <<HighByte(memAddr), LowByte(memAddr)>>
       IN  \E st \in I2CStatus, rx \in [1 .. 2 -> RxBytes \cup {Mem(memAddr), Mem(memAddr + 1)}] \cup {<<0, 0>>} :
             /\ BusWriteRead(m_address, addrBytes, 2, st, rx)
             /\ tx' = WriteReadTx(m_address, addrBytes, 2, st)
             /\ IF st # "OK"
                  THEN Return("ReadData", Sentinel)
                  ELSE Return("ReadData", DecodeTemperature(Reassemble(rx)))
    /\ nTx' = nTx + 1
    /\ UNCHANGED <<bus, m_address, memAddr, temp, payload, wstatus, attempt, nProbe>>

\* the mock bus accepts LogData's data write in this step (the call then returns true)
LogDataStored ==
    /\ bus = "MockI2C"
    /\ pc = "LogData_Write"
    /\ wstatus' = "OK"

\* what a driver step leaves alone, and the record of the values logged
DriverFrame ==
    /\ logged' = IF LogDataStored
                   THEN [a \in DOMAIN logged \cup {memAddr} |-> IF a = memAddr THEN temp ELSE logged[a]]
                   ELSE logged
    /\ UNCHANGED <<mainVars, codecVars, sensorVars>>

Next ==
    \/ (\E a \in Addrs, t \in Temps : LogData(a, t)) /\ DriverFrame
    \/ LogDataWrite /\ DriverFrame
    \/ WaitProbe /\ DriverFrame
    \/ WaitDelay /\ DriverFrame
    \/ WaitExhausted /\ DriverFrame
    \/ (\E a \in Addrs : ReadData(a)) /\ DriverFrame
    \/ ReadDataWriteRead /\ DriverFrame

Spec == Init /\ [][Next]_vars

\* the thread of control never stops in the middle of a call
DriverStep ==
    (LogDataWrite \/ WaitProbe \/ WaitDelay \/ WaitExhausted \/ ReadDataWriteRead) /\ DriverFrame

FairSpec == Spec /\ WF_vars(DriverStep)

---------------------------------------------------------------------------
(* FixedPointCodec applied to one input: encode, payload, reassembly, decode *)

\* the TMP100's range in degrees Celsius
SensorMin == -55

SensorMax == 125

\* the denominators of the inputs: sixteenths, and steps of 1/32 and 1/100
CodecDens == {16, 32, 100}

\* the numerators over d: every multiple of 1/16 an int16_t can hold, and the
\* sensor range in steps of 1/32 and of 1/100
CodecNums(d) == IF d = 16 THEN -32768 .. 32767 ELSE (SensorMin * d) .. (SensorMax * d)

CodecAddrs == {61, 32766}

CodecInit ==
    /\ bus = "MockI2C"
    /\ m_address = EEPROM_I2C_ADDR
    /\ DriverInit
    /\ MainOff
    /\ SensorOff
    /\ cDone = FALSE
    /\ cAddr \in CodecAddrs
    /\ \E d \in CodecDens : \E n \in CodecNums(d) : cIn = <<n, d>>
    /\ cEnc = 0
    /\ cWire = <<0, 0, 0, 0>>
    /\ cBack = 0
    /\ cDec = <<0, 16>>

\* LogData's encoding and payload, ReadData's reassembly and decoding, for cIn at cAddr
CodecApply ==
    /\ ~cDone
    /\ cDone' = TRUE
    /\ cEnc' = EncodeTemperature(cIn)
    /\ cWire' = Payload(cAddr, EncodeTemperature(cIn))
    /\ cBack' = Reassemble(SubSeq(Payload(cAddr, EncodeTemperature(cIn)), 3, 4))
    /\ cDec' = DecodeTemperature(EncodeTemperature(cIn))
    /\ UNCHANGED <<cAddr, cIn, bus, m_address, driverVars, busVars, mockVars, logged, mainVars,
                   sensorVars>>

CodecNext == CodecApply

CodecSpec == CodecInit /\ [][CodecNext]_vars

---------------------------------------------------------------------------
(* MockEEPROM and LogData as functions of the device's write-cycle state,
   for the callers that run a whole LogData call inside one step.
   A device state is [wip, cnt, waddr]: m_writeInProgress, m_writeCycleCount,
   m_writeAddress. *)

DeviceState == [wip |-> m_writeInProgress, cnt |-> m_writeCycleCount, waddr |-> m_writeAddress]

\* MockI2C::Write(dev, d, len) on device state s: the status and the state it leaves
MockWriteF(s, dev, d) ==
    IF dev # EEPROM_I2C_ADDR
      THEN [status |-> "Nack", s |-> s]
    ELSE IF s.wip
      THEN [status |-> "Nack",
            s |-> IF s.cnt + 1 >= 5
                    THEN [s EXCEPT !.wip = FALSE, !.cnt = 0]
                    ELSE [s EXCEPT !.cnt = s.cnt + 1]]
    ELSE IF Len(d) < 2
      THEN [status |-> "Nack", s |-> s]
    ELSE IF Len(d) > 2
      THEN IF d[1] * 256 + d[2] + (Len(d) - 2) > CAPACITY
             THEN [status |-> "Nack", s |-> s]
             ELSE [status |-> "OK", s |-> [wip |-> TRUE, cnt |-> 0, waddr |-> d[1] * 256 + d[2]]]
    ELSE [status |-> "OK", s |-> s]

\* WaitForWriteComplete at loop state w = [s, attempt, nTx, nProbe, tx, done]:
\* one test of the loop condition and, when it holds, one pass of the body
WaitIteration(w, dev) ==
    IF w.done
      THEN w
    ELSE IF ~PollAgain(w.attempt)
      THEN [w EXCEPT !.done = TRUE]
    ELSE LET p == MockWriteF(w.s, dev, <<>>)
         IN  [s |-> p.s,
              attempt |-> IF p.status = "OK" THEN w.attempt ELSE w.attempt + 1,
              nTx |-> w.nTx + 1,
              nProbe |-> w.nProbe + 1,
              tx |-> WriteTx(dev, <<>>, p.status),
              done |-> p.status = "OK"]

\* k iterations from loop state w (the first half, then the second half on its result)
RECURSIVE WaitIterations(_, _, _)
WaitIterations(w, dev, k) ==
    IF k = 0 THEN w
    ELSE IF k = 1 THEN WaitIteration(w, dev)
    ELSE CHOOSE r \in {WaitIterations(h, dev, k - (k \div 2)) :
                         h \in {WaitIterations(w, dev, k \div 2)}} : TRUE

\* the loop state on entering WaitForWriteComplete: device state s, nt
\* transactions issued so far, the last of them t
LoopState(s, nt, t) ==
    [s |-> s, attempt |-> 0, nTx |-> nt, nProbe |-> 0, tx |-> t, done |-> FALSE]

\* WaitForWriteComplete after the data write t left the device in state s: the
\* loop state at its return (it returns true on an OK and true when the
\* attempts run out)
WaitF(s, dev, t) == WaitIterations(LoopState(s, 1, t), dev, maxAttempts + 1)

\* LogData(a, t) on the mock bus, from entry to return: the value returned,
\* the payload, the status of the data write, and the loop state w reached
LogDataF(s, dev, a, t) ==
    IF CapacityExceeded(a) \/ PageBoundaryViolation(a)
      THEN [val |-> FALSE, payload |-> <<>>, wstatus |-> "none", w |-> LoopState(s, 0, NoTx)]
      ELSE LET d == Payload(a, EncodeTemperature(t))
               dw == MockWriteF(s, dev, d)
           IN  IF dw.status # "OK"
                 THEN [val |-> FALSE, payload |-> d, wstatus |-> dw.status,
                       w |-> LoopState(dw.s, 1, WriteTx(dev, d, dw.status))]
                 ELSE [val |-> TRUE, payload |-> d, wstatus |-> "OK",
                       w |-> WaitF(dw.s, dev, WriteTx(dev, d, "OK"))]

---------------------------------------------------------------------------
(* TMP100 *)

REG_TEMPERATURE == 0

REG_CONFIG == 1

\* Resolution::Bits_12
Bits_12 == 96

\* mutant: the shift rounds toward zero, as a division by 16 would
ShiftRight4_TowardZero(x) == TruncDiv(x, 16)

\* rawTemp >>= 4 on an int16_t: the arithmetic shift, which rounds down
ShiftRight4(x) == x \div 16

\* ReadTemperature after its WriteRead returned st with rawData = rx: the
\* sentinel on a failed transaction, else the 12-bit reading times 1/16
ReadTemperatureF(st, rx) ==
    IF st # "OK"
      THEN Sentinel
      ELSE <<ShiftRight4(ToInt16(rx[1] * 256 + rx[2])), 16>>

\* WriteConfig(value) on the mock bus, device state s, cached configuration
\* cache: the value returned, the cache and the device state it leaves
WriteConfigF(s, dev, cache, value) ==
    LET w == MockWriteF(s, dev, <<REG_CONFIG, value>>)
    IN  [val |-> w.status = "OK",
         cache |-> IF w.status = "OK" THEN value ELSE cache,
         s |-> w.s]

\* Init() on the mock bus
InitF(s, dev, cache) == WriteConfigF(s, dev, cache, Bits_12)

\* MockI2C::Read(dev, buffer, len): the status, and the buffer it leaves
MockI2C_Read(dev, buffer, len) ==
    IF dev = EEPROM_I2C_ADDR
      THEN [status |-> "Nack", buffer |-> buffer]
    ELSE IF dev = TMP100_I2C_ADDR
      THEN [status |-> "Nack", buffer |-> [i \in 1 .. len |-> 0]]
    ELSE [status |-> "Nack", buffer |-> buffer]

\* mutant: a mock TMP100 that answers with 22.5 degrees
MockSensorWriteRead_Answers == [status |-> "OK", rx |-> <<1, 104>>]

\* MockI2C::WriteRead(0x48, ...): the buffer is zeroed and the status is Nack
MockSensorWriteRead == [status |-> "Nack", rx |-> <<0, 0>>]

\* ReadTemperature on the mock bus
ReadTemperature == ReadTemperatureF(MockSensorWriteRead.status, MockSensorWriteRead.rx)

---------------------------------------------------------------------------
(* main(): the logging loop, and the time source it reads *)

\* the seconds the time source gains between two polls of the loop:
\* 0 is main() as built (nothing but the loop touches the MockTimer),
\* 1 is MockTimer::Tick(), 60 and 70 are MockTimer::AdvanceTime(60) and (70)
Steps == {0, 1, 60, 70}

\* the time source stops gaining time by itself at MaxTime seconds
MaxTime == 7200

\* mutant: the interval must be exceeded
IntervalElapsed_Strict(c, l) == c - l > 600

\* the test of line 55 (the readings never decrease, so the unsigned difference is c - l)
IntervalElapsed(c, l) == c - l >= 600

\* mutant: the failure threshold is below the sentinel
ReadFailed_BelowSentinel(t) == t[1] < -1000 * t[2]

\* the test of line 59 on a reading t
ReadFailed(t) == t[1] < -900 * t[2]

\* the dummy temperature of line 62, 20 + n / 100 (the float32 rounding of the
\* product and of the sum is not modelled)
Placeholder(n) == <<2000 + n, 100>>

\* mutant: the cursor is never reset
NextAddress_NoReset(a) == ToUint16(a + 2)

\* mutant: the reset happens one slot later
NextAddress_ResetLate(a) == IF ToUint16(a + 2) > 32766 THEN 0 ELSE ToUint16(a + 2)

\* lines 81-84: eepromAddress += 2 and the wrap
NextAddress(a) == IF ToUint16(a + 2) >= 32766 THEN 0 ELSE ToUint16(a + 2)

\* main() on entering the loop (line 48), with the objects it has constructed
MainInit ==
    /\ bus = "MockI2C"
    /\ m_address = EEPROM_I2C_ADDR
    /\ DriverInit
    /\ CodecOff
    /\ mpc = "while"
    /\ step \in Steps
    /\ stepped = FALSE
    /\ m_tickCount = 0
    /\ currentTime = 0
    /\ lastLogTime = 0
    /\ eepromAddress = 0
    /\ g_sampleCount = 0
    /\ temperature = <<0, 1>>
    /\ g_readSuccess = FALSE
    /\ g_writeSuccess = FALSE
    /\ g_status = "Entering main loop"
    /\ rawData = <<0, 0>>
    /\ \E r \in {InitF(DeviceState, TMP100_I2C_ADDR, 0)} :
         /\ g_initSuccess = r.val
         /\ m_configCache = r.cache

\* the time source gains `step` seconds, once between two polls
EnvAdvance ==
    /\ mpc = "while"
    /\ step > 0
    /\ ~stepped
    /\ m_tickCount < MaxTime
    /\ m_tickCount' = m_tickCount + step
    /\ stepped' = TRUE
    /\ UNCHANGED <<bus, m_address, driverVars, busVars, mockVars, logged, codecVars, sensorVars,
                   mpc, step, currentTime, lastLogTime, eepromAddress, g_sampleCount,
                   temperature, g_readSuccess, g_writeSuccess, g_status>>

\* line 51: the loop condition; line 100 when it fails
MainLoopTest ==
    /\ mpc = "while"
    /\ step = 0 \/ stepped \/ m_tickCount >= MaxTime
    /\ IF g_sampleCount < 16384
         THEN mpc' = "body" /\ UNCHANGED g_status
         ELSE mpc' = "done" /\ g_status' = "Done"
    /\ UNCHANGED <<bus, m_address, driverVars, busVars, mockVars, logged, codecVars, sensorVars,
                   step, stepped, m_tickCount, currentTime, lastLogTime, eepromAddress,
                   g_sampleCount, temperature, g_readSuccess, g_writeSuccess>>

\* mutant: a failed write aborts the cycle (cursor, counter and lastLogTime stay)
LogCycle_AbortOnFailure(c) ==
    LET reading == ReadTemperature
        t == IF ReadFailed(reading) THEN Placeholder(g_sampleCount) ELSE reading
    IN  \E r \in {LogDataF(DeviceState, m_address, eepromAddress, t)} :
          /\ g_readSuccess' = ~ReadFailed(reading)
          /\ temperature' = t
          /\ memAddr' = eepromAddress
          /\ temp' = t
          /\ payload' = r.payload
          /\ wstatus' = r.wstatus
          /\ attempt' = r.w.attempt
          /\ ret' = [op |-> "LogData", val |-> r.val]
          /\ tx' = r.w.tx
          /\ nTx' = r.w.nTx
          /\ nProbe' = r.w.nProbe
          /\ m_writeInProgress' = r.w.s.wip
          /\ m_writeCycleCount' = r.w.s.cnt
          /\ m_writeAddress' = r.w.s.waddr
          /\ g_writeSuccess' = r.val
          /\ eepromAddress' = IF r.val THEN NextAddress(eepromAddress) ELSE eepromAddress
          /\ g_sampleCount' = IF r.val THEN g_sampleCount + 1 ELSE g_sampleCount
          /\ lastLogTime' = IF r.val THEN c ELSE lastLogTime
          /\ m_tickCount' = m_tickCount + 600
          /\ g_status' = "Writing to EEPROM"
          /\ rawData' = MockSensorWriteRead.rx
          /\ UNCHANGED <<pc, m_memory, logged, m_configCache, g_initSuccess>>

\* mutant: the cursor is advanced before LogData is called
LogCycle_AdvanceFirst(c) ==
    LET reading == ReadTemperature
        t == IF ReadFailed(reading) THEN Placeholder(g_sampleCount) ELSE reading
    IN  \E r \in {LogDataF(DeviceState, m_address, NextAddress(eepromAddress), t)} :
          /\ g_readSuccess' = ~ReadFailed(reading)
          /\ temperature' = t
          /\ memAddr' = NextAddress(eepromAddress)
          /\ temp' = t
          /\ payload' = r.payload
          /\ wstatus' = r.wstatus
          /\ attempt' = r.w.attempt
          /\ ret' = [op |-> "LogData", val |-> r.val]
          /\ tx' = r.w.tx
          /\ nTx' = r.w.nTx
          /\ nProbe' = r.w.nProbe
          /\ m_writeInProgress' = r.w.s.wip
          /\ m_writeCycleCount' = r.w.s.cnt
          /\ m_writeAddress' = r.w.s.waddr
          /\ g_writeSuccess' = r.val
          /\ eepromAddress' = NextAddress(eepromAddress)
          /\ g_sampleCount' = g_sampleCount + 1
          /\ lastLogTime' = c
          /\ m_tickCount' = m_tickCount + 600
          /\ g_status' = "Incrementing counter"
          /\ rawData' = MockSensorWriteRead.rx
          /\ UNCHANGED <<pc, m_memory, logged, m_configCache, g_initSuccess>>

\* mutant: the cycle does not advance the timer (line 96 missing)
LogCycle_NoAdvance(c) ==
    LET reading == ReadTemperature
        t == IF ReadFailed(reading) THEN Placeholder(g_sampleCount) ELSE reading
    IN  \E r \in {LogDataF(DeviceState, m_address, eepromAddress, t)} :
          /\ g_readSuccess' = ~ReadFailed(reading)
          /\ temperature' = t
          /\ memAddr' = eepromAddress
          /\ temp' = t
          /\ payload' = r.payload
          /\ wstatus' = r.wstatus
          /\ attempt' = r.w.attempt
          /\ ret' = [op |-> "LogData", val |-> r.val]
          /\ tx' = r.w.tx
          /\ nTx' = r.w.nTx
          /\ nProbe' = r.w.nProbe
          /\ m_writeInProgress' = r.w.s.wip
          /\ m_writeCycleCount' = r.w.s.cnt
          /\ m_writeAddress' = r.w.s.waddr
          /\ g_writeSuccess' = r.val
          /\ eepromAddress' = NextAddress(eepromAddress)
          /\ g_sampleCount' = g_sampleCount + 1
          /\ lastLogTime' = c
          /\ m_tickCount' = m_tickCount
          /\ g_status' = "Incrementing counter"
          /\ rawData' = MockSensorWriteRead.rx
          /\ UNCHANGED <<pc, m_memory, logged, m_configCache, g_initSuccess>>

\* the log cycle of lines 56-96 at reading c: sensor read, placeholder, LogData,
\* cursor, counter, lastLogTime, timer.AdvanceTime(600).  The bytes the device
\* stores are not carried in m_memory here: main() never reads them back.
LogCycle(c) ==
    LET reading == ReadTemperature
        t == IF ReadFailed(reading) THEN Placeholder(g_sampleCount) ELSE reading
    IN  \E r \in {LogDataF(DeviceState, m_address, eepromAddress, t)} :
          /\ g_readSuccess' = ~ReadFailed(reading)
          /\ temperature' = t
          /\ memAddr' = eepromAddress
          /\ temp' = t
          /\ payload' = r.payload
          /\ wstatus' = r.wstatus
          /\ attempt' = r.w.attempt
          /\ ret' = [op |-> "LogData", val |-> r.val]
          /\ tx' = r.w.tx
          /\ nTx' = r.w.nTx
          /\ nProbe' = r.w.nProbe
          /\ m_writeInProgress' = r.w.s.wip
          /\ m_writeCycleCount' = r.w.s.cnt
          /\ m_writeAddress' = r.w.s.waddr
          /\ g_writeSuccess' = r.val
          /\ eepromAddress' = NextAddress(eepromAddress)
          /\ g_sampleCount' = g_sampleCount + 1
          /\ lastLogTime' = c
          /\ m_tickCount' = m_tickCount + 600
          /\ g_status' = "Incrementing counter"
          /\ rawData' = MockSensorWriteRead.rx
          /\ UNCHANGED <<pc, m_memory, logged, m_configCache, g_initSuccess>>

\* mutant: lastLogTime catches up to lastLogTime + 600 instead of the reading
MainBody_CatchUp ==
    /\ mpc = "body"
    /\ mpc' = "while"
    /\ stepped' = FALSE
    /\ currentTime' = m_tickCount
    /\ IF IntervalElapsed(m_tickCount, lastLogTime)
         THEN LogCycle(lastLogTime + 600)
         ELSE UNCHANGED <<driverVars, busVars, mockVars, logged, m_tickCount, lastLogTime,
                          eepromAddress, g_sampleCount, temperature, g_readSuccess,
                          g_writeSuccess, g_status, sensorVars>>
    /\ UNCHANGED <<bus, m_address, step, codecVars>>

\* lines 52-97: one pass through the loop body
MainBody ==
    /\ mpc = "body"
    /\ mpc' = "while"
    /\ stepped' = FALSE
    /\ currentTime' = m_tickCount
    /\ IF IntervalElapsed(m_tickCount, lastLogTime)
         THEN LogCycle(m_tickCount)
         ELSE UNCHANGED <<driverVars, busVars, mockVars, logged, m_tickCount, lastLogTime,
                          eepromAddress, g_sampleCount, temperature, g_readSuccess,
                          g_writeSuccess, g_status, sensorVars>>
    /\ UNCHANGED <<bus, m_address, step, codecVars>>

MainNext ==
    \/ EnvAdvance
    \/ MainLoopTest
    \/ MainBody

MainSpec == MainInit /\ [][MainNext]_vars

\* main() keeps running
MainStep == MainLoopTest \/ MainBody

MainFairSpec == MainSpec /\ WF_vars(MainStep)

---------------------------------------------------------------------------
(* The TMP100 driver called on either bus: Init any number of times, then one
   ReadTemperature.  Here m_address is TMP100::m_address. *)

\* the bytes a bus may deliver in rawData on an OK transaction
RawBytes == 0 .. 255

SensorInit ==
    /\ bus \in Buses
    /\ m_address = TMP100_I2C_ADDR
    /\ DriverInit
    /\ MainOff
    /\ CodecOff
    /\ SensorOff

\* no ReadTemperature has returned yet
SensorReady == pc = "idle" /\ ret.op # "ReadTemperature"

\* mutant: the cache is updated whatever the write returned
WriteConfig_CacheAlways(value, v) ==
    \E st \in I2CStatus :
      /\ BusWrite(m_address, <<REG_CONFIG, value>>, st)
      /\ tx' = WriteTx(m_address, <<REG_CONFIG, value>>, st)
      /\ v = (st = "OK")
      /\ m_configCache' = value

\* WriteConfig(value) returning v
WriteConfig(value, v) ==
    \E st \in I2CStatus :
      /\ BusWrite(m_address, <<REG_CONFIG, value>>, st)
      /\ tx' = WriteTx(m_address, <<REG_CONFIG, value>>, st)
      /\ v = (st = "OK")
      /\ m_configCache' = IF st = "OK" THEN value ELSE m_configCache

\* TMP100::Init()
TMP100_Init ==
    /\ SensorReady
    /\ \E v \in BOOLEAN :
         /\ WriteConfig(Bits_12, v)
         /\ Return("Init", v)
    /\ nTx' = 1
    /\ UNCHANGED <<bus, m_address, memAddr, temp, payload, wstatus, attempt, nProbe, logged,
                   mainVars, codecVars, rawData, g_initSuccess>>

\* TMP100::ReadTemperature()
TMP100_ReadTemperature ==
    /\ SensorReady
    /\ \E st \in I2CStatus :
         \E hi \in (IF bus # "MockI2C" /\ st = "OK" THEN RawBytes ELSE {0}),
            lo \in (IF bus # "MockI2C" /\ st = "OK" THEN RawBytes ELSE {0}) :
           /\ IF bus = "MockI2C"
                THEN MockI2C_WriteRead(m_address, <<REG_TEMPERATURE>>, 2, st, <<hi, lo>>)
                ELSE UNCHANGED mockVars
           /\ tx' = WriteReadTx(m_address, <<REG_TEMPERATURE>>, 2, st)
           /\ rawData' = <<hi, lo>>
           /\ Return("ReadTemperature", ReadTemperatureF(st, <<hi, lo>>))
    /\ nTx' = 1
    /\ UNCHANGED <<bus, m_address, memAddr, temp, payload, wstatus, attempt, nProbe, logged,
                   mainVars, codecVars, m_configCache, g_initSuccess>>

SensorNext ==
    \/ TMP100_Init
    \/ TMP100_ReadTemperature

SensorSpec == SensorInit /\ [][SensorNext]_vars

---------------------------------------------------------------------------
(* The interval test of line 55 on uint32_t values, for readings of the
   elapsed-seconds counter that wrap past 2^32.  Here a uint32_t is a pair
   <<high half, low half>> of 16-bit halves, and currentTime, lastLogTime and
   m_tickCount hold such pairs; step is the number of seconds that really pass
   between the reading kept in lastLogTime and the next reading. *)

\* x + n modulo 2^32 (n < 2^31 - 2^16)
U32Add(x, n) ==
    LET lo == x[2] + n
    IN  <<(x[1] + (lo \div 65536)) % 65536, lo % 65536>>

\* a - b modulo 2^32
U32Sub(a, b) ==
    LET lo == a[2] - b[2]
    IN  <<(a[1] - b[1] + (lo \div 65536)) % 65536, lo % 65536>>

\* x >= n for a uint32_t x and n < 2^16
U32AtLeast(x, n) == x[1] > 0 \/ x[2] >= n

\* a >= b for two uint32_t
U32Geq(a, b) == a[1] > b[1] \/ (a[1] = b[1] /\ a[2] >= b[2])

\* the uint32_t that holds n (0 <= n < 2^31)
ToU32(n) == <<n \div 65536, n % 65536>>

\* mutant: the test compares the reading with the deadline lastLogTime + 600
IntervalElapsed32_Deadline(c, l) == U32Geq(c, U32Add(l, 600))

\* line 55 on uint32_t operands: the difference is taken modulo 2^32
IntervalElapsed32(c, l) == U32AtLeast(U32Sub(c, l), 600)

\* readings kept in lastLogTime: 0, 65535, 2^31 - 1, and four within 601
\* seconds of the wrap (2^32 - 601, - 600, - 536, - 1)
WrapStarts == {<<0, 0>>, <<0, 65535>>, <<32767, 65535>>, <<65535, 64935>>, <<65535, 64936>>,
               <<65535, 65000>>, <<65535, 65535>>}

\* seconds that pass until the next reading
Elapsed == (0 .. 1300) \cup {65535, 65536, 66136, 1000000}

WrapInit ==
    /\ bus = "MockI2C"
    /\ m_address = EEPROM_I2C_ADDR
    /\ DriverInit
    /\ CodecOff
    /\ SensorOff
    /\ mpc = "while"
    /\ step \in Elapsed
    /\ stepped = FALSE
    /\ lastLogTime \in WrapStarts
    /\ m_tickCount = lastLogTime
    /\ currentTime = lastLogTime
    /\ eepromAddress = 0
    /\ g_sampleCount = 0
    /\ temperature = <<0, 1>>
    /\ g_readSuccess = FALSE
    /\ g_writeSuccess = FALSE
    /\ g_status = "Entering main loop"

\* `step` seconds pass: the counter advances modulo 2^32
WrapElapse ==
    /\ mpc = "while"
    /\ ~stepped
    /\ stepped' = TRUE
    /\ m_tickCount' = U32Add(m_tickCount, step)
    /\ UNCHANGED <<bus, m_address, driverVars, busVars, mockVars, logged, codecVars, sensorVars,
                   mpc, step, currentTime, lastLogTime, eepromAddress, g_sampleCount,
                   temperature, g_readSuccess, g_writeSuccess, g_status>>

\* lines 52 and 55: the reading and the interval test
WrapPoll ==
    /\ mpc = "while"
    /\ stepped
    /\ currentTime' = m_tickCount
    /\ mpc' = IF IntervalElapsed32(m_tickCount, lastLogTime) THEN "triggered" ELSE "skipped"
    /\ UNCHANGED <<bus, m_address, driverVars, busVars, mockVars, logged, codecVars, sensorVars,
                   step, stepped, m_tickCount, lastLogTime, eepromAddress, g_sampleCount,
                   temperature, g_readSuccess, g_writeSuccess, g_status>>

WrapNext ==
    \/ WrapElapse
    \/ WrapPoll

WrapSpec == WrapInit /\ [][WrapNext]_vars

---------------------------------------------------------------------------
(* MockI2C / MockEEPROM accessed directly at 0x50, by any sequence of Write
   and WriteRead calls.  Here wstatus is "OK" once a data write has been
   accepted, and nTx counts the accesses since the last accepted data write. *)

\* buffers written: a probe, one byte, an address alone, two samples, one
\* reaching past the end by a byte, one starting past the end
MockWrites == {<<>>, <<0>>, <<0, 0>>, <<0, 0, 1, 104>>, <<127, 254, 254, 111>>,
               <<127, 255, 9, 9>>, <<128, 0, 0, 0>>}

\* address phases of the reads (2 bytes are read): one too short, one past the end
MockReads == {<<0>>, <<0, 0>>, <<127, 254>>, <<127, 255>>}

\* accesses followed after a data write, or from the start
MaxAccesses == 7

MockInit ==
    /\ bus = "MockI2C"
    /\ m_address = EEPROM_I2C_ADDR
    /\ DriverInit
    /\ MainOff
    /\ CodecOff
    /\ SensorOff

\* i2c.Write(0x50, d, Len(d))
MockAccessWrite(d) ==
    /\ nTx < MaxAccesses
    /\ \E st \in I2CStatus :
         /\ MockI2C_Write(EEPROM_I2C_ADDR, d, st)
         /\ tx' = WriteTx(EEPROM_I2C_ADDR, d, st)
         /\ IF Len(d) > 2 /\ st = "OK"
              THEN nTx' = 0 /\ wstatus' = "OK"
              ELSE nTx' = nTx + 1 /\ UNCHANGED wstatus
    /\ UNCHANGED <<bus, m_address, pc, memAddr, temp, payload, attempt, ret, nProbe, logged,
                   mainVars, codecVars, sensorVars>>

\* i2c.WriteRead(0x50, t, Len(t), rx, 2)
MockAccessRead(t) ==
    /\ nTx < MaxAccesses
    /\ \E st \in I2CStatus, rx \in {<<0, 0>>, <<Mem(0), Mem(1)>>, <<Mem(32766), Mem(32767)>>} :
         /\ MockI2C_WriteRead(EEPROM_I2C_ADDR, t, 2, st, rx)
         /\ tx' = WriteReadTx(EEPROM_I2C_ADDR, t, 2, st)
    /\ nTx' = nTx + 1
    /\ UNCHANGED <<bus, m_address, pc, memAddr, temp, payload, wstatus, attempt, ret, nProbe,
                   logged, mainVars, codecVars, sensorVars>>

MockNext ==
    \/ \E d \in MockWrites : MockAccessWrite(d)
    \/ \E t \in MockReads : MockAccessRead(t)

MockSpec == MockInit /\ [][MockNext]_vars

---------------------------------------------------------------------------
(* II2CController::WriteRead, the default implementation, on a controller
   whose Write and Read return any status *)

ReadTx(dev, n, st) == [op |-> "Read", addr |-> dev, data |-> <<>>, rxLen |-> n, status |-> st]

\* the tx buffers and the rx lengths of the calls
TxBuffers == {<<>>, <<0>>, <<0, 0>>, <<127, 254>>}

RxLens == {1, 2, 4}

\* mutant: the status of the failed Write is passed through
DefaultWriteRead_PassThrough(dev, t, n) ==
    /\ pc = "idle"
    /\ payload' = t
    /\ \E ws \in I2CStatus, rs \in I2CStatus :
         /\ wstatus' = ws
         /\ IF ws # "OK"
              THEN /\ tx' = WriteTx(dev, t, ws)
                   /\ nTx' = 1
                   /\ ret' = [op |-> "WriteRead", val |-> ws]
              ELSE /\ tx' = ReadTx(dev, n, rs)
                   /\ nTx' = 2
                   /\ ret' = [op |-> "WriteRead", val |-> rs]
    /\ UNCHANGED <<bus, m_address, pc, memAddr, temp, attempt, nProbe, mockVars, logged,
                   mainVars, codecVars, sensorVars>>

\* WriteRead(dev, t, Len(t), rx, n): Write, then Read unless the Write failed
DefaultWriteRead(dev, t, n) ==
    /\ pc = "idle"
    /\ payload' = t
    /\ \E ws \in I2CStatus, rs \in I2CStatus :
         /\ wstatus' = ws
         /\ IF ws # "OK"
              THEN /\ tx' = WriteTx(dev, t, ws)
                   /\ nTx' = 1
                   /\ ret' = [op |-> "WriteRead", val |-> "Error"]
              ELSE /\ tx' = ReadTx(dev, n, rs)
                   /\ nTx' = 2
                   /\ ret' = [op |-> "WriteRead", val |-> rs]
    /\ UNCHANGED <<bus, m_address, pc, memAddr, temp, attempt, nProbe, mockVars, logged,
                   mainVars, codecVars, sensorVars>>

WriteReadInit ==
    /\ bus = "Any"
    /\ m_address = EEPROM_I2C_ADDR
    /\ DriverInit
    /\ MainOff
    /\ CodecOff
    /\ SensorOff

WriteReadNext == \E dev \in DevAddrs, t \in TxBuffers, n \in RxLens : DefaultWriteRead(dev, t, n)

WriteReadSpec == WriteReadInit /\ [][WriteReadNext]_vars

---------------------------------------------------------------------------
(* Properties of LogData / ReadData / WaitForWriteComplete *)

Returned(op) == pc = "idle" /\ ret.op = op

\* the last transaction is LogData's 4-byte data write
IsDataWrite(t) == t.op = "Write" /\ Len(t.data) = 4

\* the last transaction is a zero-length write
IsProbe(t) == t.op = "Write" /\ Len(t.data) = 0

\* the memory address a data transaction carries in its first two bytes
TxMemAddr(t) == t.data[1] * 256 + t.data[2]

\* C1: LogData returns false for every address a with a + 2 > 32768, and
\* LogData(32766, x) returns true when its data write returned OK.
C1_CapacityBoundary ==
    Returned("LogData") =>
        /\ (memAddr + 2 > 32768 => ret.val = FALSE)
        /\ (memAddr = 32766 /\ wstatus = "OK" => ret.val = TRUE)

C1_Witness ==
    /\ Returned("LogData") /\ memAddr = 32766 /\ wstatus = "OK" /\ ret.val = TRUE

C3_NoWriteSpansPages ==
    IsDataWrite(tx) =>
        /\ TxMemAddr(tx) = memAddr
        /\ (TxMemAddr(tx) \div 64) = ((TxMemAddr(tx) + 1) \div 64)

C3_Witness ==
    /\ IsDataWrite(tx) /\ TxMemAddr(tx) = 61 /\ tx.status = "OK"

\* C4: every data transaction (LogData's write, ReadData's WriteRead)
\* addresses a 2-byte range with address + 2 <= 32768.
C4_TransactionsInCapacity ==
    (IsDataWrite(tx) \/ tx.op = "WriteRead") =>
        /\ TxMemAddr(tx) = memAddr
        /\ TxMemAddr(tx) + 2 <= 32768

C4_Witness ==
    /\ tx.op = "WriteRead" /\ TxMemAddr(tx) = 32766

\* a step in which LogData is entered and rejects its address
LogDataRejects ==
    /\ pc = "idle"
    /\ pc' = "idle"
    /\ ret'.op = "LogData"
    /\ \/ memAddr' + 2 > 32768
       \/ ((memAddr' \div 64) # ((memAddr' + 2) \div 64) /\ memAddr' + 2 < 32768)

\* C5: when LogData rejects an address it issues no bus transaction and
\* the device memory and write-cycle state stay as they were.
C5_RejectionHasNoEffect ==
    [][LogDataRejects =>
          /\ ret'.val = FALSE
          /\ nTx' = 0 /\ nProbe' = 0 /\ tx' = NoTx
          /\ UNCHANGED mockVars]_vars

C5_Witness ==
    /\ Returned("LogData") /\ memAddr = 63 /\ ret.val = FALSE /\ nTx = 0
    /\ bus = "MockI2C" /\ 0 \in DOMAIN m_memory

\* C6: when the data write returns Error, Nack or Timeout, LogData returns
\* false at once: one transaction, no probe, no retry.
C6_FailedWriteReturnsFalse ==
    /\ (Returned("LogData") /\ wstatus \in {"Error", "Nack", "Timeout"}
          => ret.val = FALSE /\ nTx = 1 /\ nProbe = 0 /\ IsDataWrite(tx))
    /\ (wstatus \in {"Error", "Nack", "Timeout"} => pc = "idle")

C6_Witness ==
    /\ Returned("LogData") /\ wstatus = "Timeout" /\ ret.val = FALSE /\ nTx = 1

\* the write-completion wait ended with all 100 probes refused
PollExhausted ==
    /\ Returned("LogData") /\ wstatus = "OK"
    /\ nProbe = 100 /\ attempt = 100 /\ IsProbe(tx) /\ tx.status # "OK"

C8_PollTimeoutReturnsFalse ==
    PollExhausted => ret.val = FALSE

\* C9: the wait issues zero-length writes to the device address one after
\* another, issues none after one that returned OK, and never more than 100
\* in one LogData call.
C9_PollStopsAtFirstOk ==
    [][nProbe' # nProbe /\ nProbe' # 0 =>
          /\ nProbe' = nProbe + 1
          /\ nProbe' <= 100
          /\ IsProbe(tx') /\ tx'.addr = m_address
          /\ wstatus = "OK"
          /\ (nProbe = 0 => IsDataWrite(tx) /\ tx.status = "OK")
          /\ (nProbe > 0 => IsProbe(tx) /\ tx.status # "OK")
          /\ (tx'.status = "OK" => pc' = "idle" /\ ret' = [op |-> "LogData", val |-> TRUE])]_vars

C9_Witness ==
    /\ Returned("LogData") /\ nProbe = 3 /\ IsProbe(tx) /\ tx.status = "OK" /\ ret.val = TRUE

InLogData == pc \in {"LogData_Write", "Wait_Probe", "Wait_Delay"}

\* C10: a LogData call performs at most 101 bus transactions (one data
\* write and at most 100 probes) and then returns, whatever the transport
\* answers.
C10_LogDataTerminates ==
    /\ [](nTx <= 101 /\ nTx <= 1 + nProbe)
    /\ (InLogData ~> Returned("LogData"))

C10_Witness ==
    /\ Returned("LogData") /\ nTx = 101 /\ nProbe = 100 /\ bus = "Any"

---------------------------------------------------------------------------
(* Properties of ReadData and of the write / read round trip *)

\* C12: ReadData(a) returns the sentinel -999.0 for every address
\* a >= 32767, and issues no bus transaction for it.
C12_ReadSentinelOutOfBounds ==
    Returned("ReadData") /\ memAddr >= 32767 =>
        /\ ret.val = <<-999, 1>>
        /\ nTx = 0
        /\ tx = NoTx

C12_Witness ==
    /\ Returned("ReadData") /\ memAddr = 32767 /\ ret.val = <<-999, 1>> /\ nTx = 0

\* C13: for an in-range address ReadData issues exactly one WriteRead, with
\* write phase [addrHigh, addrLow] and a 2-byte read phase, and returns the
\* sentinel whenever its status is not OK; there is no retry.
C13_ReadOneTransaction ==
    Returned("ReadData") /\ memAddr < 32767 =>
        /\ nTx = 1
        /\ nProbe = 0
        /\ tx.op = "WriteRead"
        /\ tx.addr = m_address
        /\ tx.data = <<memAddr \div 256, memAddr % 256>>
        /\ tx.rxLen = 2
        /\ (tx.status \in {"Error", "Nack", "Timeout"} => ret.val = <<-999, 1>>)

C13_Witness ==
    /\ Returned("ReadData") /\ memAddr = 32766 /\ tx.status = "Timeout"
    /\ ret.val = <<-999, 1>> /\ nTx = 1

\* C14: on the mock bus, once LogData(a, v) has returned true for a value v
\* that is an exact multiple of 1/16, ReadData(a) returns exactly v, also
\* after writes to other slots.
C14_WriteReadRoundTrip ==
    /\ Returned("ReadData") /\ bus = "MockI2C" /\ m_address = EEPROM_I2C_ADDR
    /\ memAddr \in DOMAIN logged /\ IsSixteenth(logged[memAddr])
    => /\ tx.status = "OK"
       /\ RatEq(ret.val, logged[memAddr])

C14_Witness ==
    /\ Returned("ReadData") /\ bus = "MockI2C" /\ memAddr = 0
    /\ DOMAIN logged = {0, 61, 32766}
    /\ logged[0] = <<-401, 16>> /\ logged[61] = <<45, 2>>
    /\ ret.val = <<-401, 16>>

---------------------------------------------------------------------------
(* Properties of the codec and of the wire format *)

InSensorRange(v) == SensorMin * v[2] <= v[1] /\ v[1] <= SensorMax * v[2]

Abs(x) == IF x < 0 THEN -x ELSE x

\* C15: encode is 16 * v truncated toward zero, decode divides by 16, and
\* for v in the sensor range decode(encode(v)) is less than 1/16 away from v
\* and never farther from zero than v.
C15_CodecRoundTrip ==
    cDone /\ InSensorRange(cIn) =>
        LET n == cIn[1]
            d == cIn[2]
        IN  /\ (n >= 0 => cEnc * d <= 16 * n /\ 16 * n < (cEnc + 1) * d)
            /\ (n < 0 => (cEnc - 1) * d < 16 * n /\ 16 * n <= cEnc * d)
            /\ cDec[2] = 16 /\ cDec[1] = cEnc
            /\ Abs(cDec[1] * d - n * cDec[2]) * 16 < cDec[2] * d
            /\ Abs(cDec[1]) * d <= Abs(n) * cDec[2]

C15_Witness ==
    /\ cDone /\ cIn = <<-1, 32>> /\ cEnc = 0 /\ cDec = <<0, 16>>

\* C16: the payload is [a >> 8, a & 0xFF, (e >> 8) & 0xFF, e & 0xFF], and
\* the two data bytes, reassembled big-endian as a signed 16-bit integer,
\* give e back for every int16 value e.
C16_WireFormat ==
    cDone =>
        LET u == IF cEnc < 0 THEN cEnc + 65536 ELSE cEnc
        IN  /\ cEnc \in -32768 .. 32767
            /\ cWire = <<cAddr \div 256, cAddr % 256, u \div 256, u % 256>>
            /\ cBack = cEnc

C16_Witness ==
    /\ cDone /\ cAddr = 32766 /\ cEnc = -401 /\ cWire = <<127, 254, 254, 111>> /\ cBack = -401

---------------------------------------------------------------------------
(* Properties of the logging loop *)

\* the functions MockWriteF agree with the steps of the mock bus (checked under Spec)
WriteLayersAgree ==
    [][(bus = "MockI2C" /\ pc \in {"LogData_Write", "Wait_Probe"} /\ tx' # tx) =>
         LET r == MockWriteF(DeviceState, m_address, tx'.data)
         IN  /\ tx'.status = r.status
             /\ m_writeInProgress' = r.s.wip
             /\ m_writeCycleCount' = r.s.cnt
             /\ m_writeAddress' = r.s.waddr]_vars

\* C11: the main loop terminates: from MockTimer 0 and lastLogTime 0 the
\* program eventually performs 16384 log cycles and reaches the status "Done".
C11_MainLoopTerminates == <>(g_sampleCount = 16384 /\ g_status = "Done")

\* C17: a pass through the loop body triggers a log event if and only if
\* currentTime - lastLogTime >= 600, nothing else logs, and no log event
\* occurs while less than 600 seconds have elapsed since the start.
C17_TriggerIffIntervalElapsed ==
    /\ [](m_tickCount < 600 => g_sampleCount = 0 /\ ret.op = "none")
    /\ [][/\ mpc = "body" =>
               ((g_sampleCount' = g_sampleCount + 1) <=> (m_tickCount - lastLogTime >= 600))
          /\ g_sampleCount' # g_sampleCount =>
               (mpc = "body" /\ g_sampleCount' = g_sampleCount + 1 /\ currentTime' = m_tickCount)]_vars

C17_Witness ==
    /\ step = 60 /\ g_sampleCount = 1 /\ currentTime = 600 /\ lastLogTime = 600
    /\ ret.op = "LogData"

\* C18: with the time source advanced in 60-second steps from 0 and the loop
\* polled once per step, the k-th log event (k = 1 .. 12) occurs at time
\* 600 * k, so that exactly 12 events occur within the first 7200 seconds.
C18_TwelveEventsIn7200 ==
    step = 60 =>
        /\ g_sampleCount \in 1 .. 12 => lastLogTime = 600 * g_sampleCount
        /\ (lastLogTime <= 7200 /\ m_tickCount > 7200) => g_sampleCount = 12

\* C19: the cursor is even and never exceeds CAPACITY - 2, each log cycle
\* advances it by 2, and an advance that reaches 32766 or more resets it to
\* 0, so it is never 32768.
C19_CircularCursor ==
    /\ [](eepromAddress % 2 = 0 /\ eepromAddress <= CAPACITY - 2 /\ eepromAddress # 32768)
    /\ [][g_sampleCount' # g_sampleCount =>
            eepromAddress' = IF eepromAddress + 2 >= 32766 THEN 0 ELSE eepromAddress + 2]_vars

C19_Witness ==
    /\ g_sampleCount = 16383 /\ memAddr = 32764 /\ eepromAddress = 0

---------------------------------------------------------------------------
(* Properties of the log cycle *)

\* C21: in every triggered cycle, whether LogData returns true or false, the
\* cursor advances by one slot, the sample count increases by 1 and
\* lastLogTime is updated; LogData is called once, and a failed write is not
\* retried.
C21_StorageResultIgnored ==
    [][(mpc = "body" /\ m_tickCount - lastLogTime >= 600) =>
         /\ ret'.op = "LogData" /\ memAddr' = eepromAddress
         /\ g_writeSuccess' = ret'.val
         /\ ~ret'.val => nTx' <= 1
         /\ eepromAddress' = IF eepromAddress + 2 >= 32766 THEN 0 ELSE eepromAddress + 2
         /\ g_sampleCount' = g_sampleCount + 1
         /\ lastLogTime' = m_tickCount]_vars

C21_Witness ==
    /\ ret = [op |-> "LogData", val |-> FALSE] /\ ~g_writeSuccess /\ memAddr = 62
    /\ eepromAddress = 64 /\ g_sampleCount = 32 /\ lastLogTime = currentTime

\* C22: when the sensor read fails (ReadTemperature returns a value below
\* -900) the cycle is not skipped: the placeholder 20 + sampleCount / 100 is
\* substituted, LogData is called with it at the current cursor, and the
\* cursor and the sample count advance.
C22_PlaceholderOnSensorFailure ==
    [][(/\ mpc = "body" /\ m_tickCount - lastLogTime >= 600
        /\ ReadTemperature[1] < -900 * ReadTemperature[2]) =>
         /\ ~g_readSuccess'
         /\ temperature' = <<2000 + g_sampleCount, 100>>
         /\ ret'.op = "LogData" /\ memAddr' = eepromAddress /\ temp' = temperature'
         /\ ret'.val => payload' = Payload(eepromAddress, TruncDiv((2000 + g_sampleCount) * 16, 100))
         /\ eepromAddress' = IF eepromAddress + 2 >= 32766 THEN 0 ELSE eepromAddress + 2
         /\ g_sampleCount' = g_sampleCount + 1]_vars

C22_Witness ==
    /\ g_sampleCount = 1 /\ ~g_readSuccess /\ temperature = <<2000, 100>> /\ temp = <<2000, 100>>
    /\ memAddr = 0 /\ payload = <<0, 0, 1, 64>> /\ ret.val /\ eepromAddress = 2

\* C23: a trigger sets lastLogTime to the currentTime read in that pass (not
\* to lastLogTime + 600), two consecutive log events are at least 600 seconds
\* apart, and with a time step that does not divide 600 the k-th trigger is
\* later than 600 * k: the delay is never caught up.
C23_LastLogTimeIsReading ==
    /\ [][g_sampleCount' # g_sampleCount =>
            /\ currentTime' = m_tickCount
            /\ lastLogTime' = currentTime'
            /\ lastLogTime' - lastLogTime >= 600]_vars
    /\ []((step > 0 /\ 600 % step # 0 /\ g_sampleCount >= 1) => lastLogTime > 600 * g_sampleCount)

C23_Witness ==
    /\ step = 70 /\ g_sampleCount = 2 /\ currentTime = 1300 /\ lastLogTime = 1300

---------------------------------------------------------------------------
(* Properties of MockEEPROM *)

\* C24: against the mock, after an accepted data write the zero-length probes
\* are NACKed while the write cycle is in progress and acknowledged once it
\* has completed, so WaitForWriteComplete ends on an OK before its bound of
\* 100 attempts.
C24_MockAckPolling ==
    (/\ bus = "MockI2C" /\ m_address = EEPROM_I2C_ADDR
     /\ Returned("LogData") /\ wstatus = "OK") =>
        /\ tx.op = "Write" /\ tx.data = <<>> /\ tx.status = "OK"
        /\ nProbe < maxAttempts

---------------------------------------------------------------------------
(* Properties of the II2CController interface *)

\* C25: the default WriteRead performs Write then Read as two transactions;
\* when the Write returns any status but OK it returns Error without
\* performing the Read, otherwise it returns the status of the Read.
C25_DefaultWriteRead ==
    ret.op = "WriteRead" =>
        /\ wstatus # "OK" =>
             /\ ret.val = "Error"
             /\ nTx = 1 /\ tx.op = "Write" /\ tx.status = wstatus /\ tx.data = payload
        /\ wstatus = "OK" =>
             /\ nTx = 2 /\ tx.op = "Read"
             /\ ret.val = tx.status

C25_Witness ==
    /\ ret = [op |-> "WriteRead", val |-> "Error"] /\ wstatus = "Timeout"
    /\ nTx = 1 /\ tx.op = "Write" /\ tx.status = "Timeout"

---------------------------------------------------------------------------
(* Properties of the logging loop on the mock bus *)

\* C26: in the loop run against MockI2C/MockEEPROM every triggered log cycle
\* stores its sample: LogData returns true (g_writeSuccess is true) for
\* every cursor value the loop produces.
C26_EveryCycleStores ==
    ret.op = "LogData" => (ret.val /\ g_writeSuccess /\ wstatus = "OK")

C28_NoSlotWrittenTwice ==
    ~(/\ g_sampleCount >= 2 /\ ret = [op |-> "LogData", val |-> TRUE]
      /\ memAddr = 0 /\ wstatus = "OK" /\ m_writeAddress = 0)

---------------------------------------------------------------------------
(* Properties of the sentinel *)

\* C29 as stated: a successful in-range read never yields -999.0, whatever
\* value was previously stored with LogData.
C29_SentinelNeverOnSuccess ==
    (Returned("ReadData") /\ memAddr < CAPACITY - 1 /\ tx.status = "OK") =>
        ~RatEq(ret.val, Sentinel)

\* C29 amended: on the mock bus, a read of a slot that holds a logged value
\* of the sensor range succeeds and does not return the sentinel; a
\* successful in-range read returns -999.0 only from a slot in which -999.0
\* itself was logged.
C29_SentinelOnlyOnFailure ==
    (/\ Returned("ReadData") /\ bus = "MockI2C" /\ m_address = EEPROM_I2C_ADDR
     /\ memAddr < CAPACITY - 1 /\ tx.status = "OK") =>
        /\ (memAddr \in DOMAIN logged /\ InSensorRange(logged[memAddr])) =>
             ~RatEq(ret.val, Sentinel)
        /\ RatEq(ret.val, Sentinel) =>
             (memAddr \in DOMAIN logged /\ logged[memAddr] = <<-999, 1>>)

C29_Witness ==
    /\ Returned("ReadData") /\ bus = "MockI2C" /\ memAddr = 61 /\ tx.status = "OK"
    /\ memAddr \in DOMAIN logged /\ logged[61] = <<45, 2>> /\ ret.val = <<360, 16>>

---------------------------------------------------------------------------
(* Properties of the mock's write cycle *)

\* C30: after an accepted data write exactly the next 5 accesses (Write or
\* Read, in any mix) are answered Nack because the device is busy, the 5th
\* clears the in-progress flag and the 6th is served; in every state
\* in-progress false implies the cycle count is 0 and in-progress true
\* implies the cycle count is at most 4.
C30_WriteCycleCounter ==
    /\ ~m_writeInProgress => m_writeCycleCount = 0
    /\ m_writeInProgress => m_writeCycleCount <= 4
    /\ wstatus = "OK" =>
         /\ nTx < 5 => (m_writeInProgress /\ m_writeCycleCount = nTx)
         /\ nTx >= 5 => ~m_writeInProgress
         /\ (nTx >= 1 /\ nTx <= 5) => tx.status = "Nack"
         /\ (nTx = 6 /\ tx.op = "WriteRead" /\ tx.data \in {<<0, 0>>, <<127, 254>>}) =>
              tx.status = "OK"

C30_Witness ==
    /\ wstatus = "OK" /\ nTx = 5 /\ tx.op = "WriteRead" /\ tx.data = <<0, 0>>
    /\ tx.status = "Nack" /\ ~m_writeInProgress /\ m_writeCycleCount = 0
    /\ Mem(0) = 1 /\ Mem(1) = 104
\* C31: while the write cycle is in progress every Write (with or without
\* data) and every Read is answered Nack and leaves the memory as it was; a
\* Read leaves the memory as it was in every state.
C31_BusyAccessesLeaveMemory ==
    [][/\ m_writeInProgress => (tx'.status = "Nack" /\ m_memory' = m_memory)
       /\ tx'.op = "WriteRead" => m_memory' = m_memory]_vars

\* a data write for slot 32766 arrived while the sample at 0 was being
\* written: it was answered Nack and slot 32766 is still erased
C31_Witness ==
    /\ wstatus = "OK" /\ nTx >= 1 /\ nTx <= 5
    /\ tx.op = "Write" /\ tx.data = <<127, 254, 254, 111>> /\ tx.status = "Nack"
    /\ Mem(0) = 1 /\ Mem(1) = 104
    /\ Mem(32766) = 255 /\ Mem(32767) = 255
\* C32: after a LogData call that returned true against MockI2C / MockEEPROM
\* the device is out of its write cycle, and the transaction of a ReadData or
\* LogData called next is served (OK), never answered Nack for being busy.
C32_DeviceIdleAfterLogData ==
    /\ []((bus = "MockI2C" /\ Returned("LogData") /\ ret.val = TRUE) =>
            (~m_writeInProgress /\ m_writeCycleCount = 0))
    /\ [][(/\ bus = "MockI2C"
           /\ ret = [op |-> "LogData", val |-> TRUE]
           /\ pc \in {"ReadData_WriteRead", "LogData_Write"}) => tx'.status = "OK"]_vars

\* a ReadData called right after a LogData that returned true on the mock bus
\* is about to issue its transaction, and the device is idle
C32_Witness ==
    /\ bus = "MockI2C"
    /\ ret = [op |-> "LogData", val |-> TRUE]
    /\ pc = "ReadData_WriteRead"
    /\ memAddr \in DOMAIN logged
    /\ ~m_writeInProgress
\* C33: a LogData(a, v) that succeeds against the mock stores the two bytes of
\* the encoded value at a and a + 1 and every other byte of the memory keeps
\* its value; no other step of LogData or ReadData changes a memory byte, and
\* the driver's own fields (bus reference, device address) never change.
C33_LogDataFrame ==
    [][/\ \A x \in DOMAIN m_memory \cup DOMAIN m_memory' :
            Mem(x)' # Mem(x) => (LogDataStored /\ x \in {memAddr, memAddr + 1})
       /\ LogDataStored =>
            /\ Mem(memAddr)' = HighByte(ToUint16(EncodeTemperature(temp)))
            /\ Mem(memAddr + 1)' = LowByte(ToUint16(EncodeTemperature(temp)))
       /\ bus' = bus
       /\ m_address' = m_address]_vars

\* LogData(61, 22.5) has returned true after slot 0 had been written with
\* -25.0625: bytes 61 and 62 hold 0x01 0x68, slot 0 and byte 63 are as before
C33_Witness ==
    /\ bus = "MockI2C" /\ Returned("LogData") /\ ret.val = TRUE
    /\ memAddr = 61 /\ temp = <<45, 2>>
    /\ Mem(61) = 1 /\ Mem(62) = 104 /\ Mem(63) = 255
    /\ Mem(0) = 254 /\ Mem(1) = 111
\* C34: on the idle device a Write whose data would reach past address 32767
\* (addr + dataLen > 32768) and a Write of fewer than 2 bytes are answered
\* Nack, store nothing and start no write cycle; a Read with
\* addr + rxLen > 32768 is answered Nack.
C34_MockBounds ==
    [][/\ (/\ ~m_writeInProgress
           /\ tx'.op = "Write"
           /\ \/ Len(tx'.data) < 2
              \/ TxMemAddr(tx') + (Len(tx'.data) - 2) > 32768) =>
             (tx'.status = "Nack" /\ UNCHANGED mockVars)
       /\ (/\ tx'.op = "WriteRead"
           /\ Len(tx'.data) >= 2
           /\ TxMemAddr(tx') + tx'.rxLen > 32768) =>
             (tx'.status = "Nack" /\ m_memory' = m_memory)]_vars

\* after the cycle of an accepted write has ended, a 2-byte write at 32767 is
\* answered Nack, byte 32767 is still erased and no cycle has started
C34_Witness ==
    /\ wstatus = "OK" /\ nTx = 6
    /\ tx.op = "Write" /\ tx.data = <<127, 255, 9, 9>> /\ tx.status = "Nack"
    /\ ~m_writeInProgress /\ m_writeCycleCount = 0
    /\ Mem(32767) = 255
---------------------------------------------------------------------------
(* Properties of the TMP100 driver, and of main() with the sensor on MockI2C *)

\* C38: ReadTemperature issues one WriteRead of register 0 with a 2-byte read
\* phase; on a status other than OK it returns -999.0, and on OK, for every
\* 16-bit raw value r = rawData[0] * 256 + rawData[1], it returns
\* floor(s / 16) / 16 where s is r taken as a signed 16-bit number (rounding
\* down for negative readings too).
C38_ReadTemperature ==
    Returned("ReadTemperature") =>
        /\ nTx = 1
        /\ tx = WriteReadTx(m_address, <<0>>, 2, tx.status)
        /\ tx.status # "OK" => ret.val = <<-999, 1>>
        /\ tx.status = "OK" =>
             LET r == rawData[1] * 256 + rawData[2]
                 s == IF r >= 32768 THEN r - 65536 ELSE r
             IN  /\ ret.val[2] = 16
                 /\ 16 * ret.val[1] <= s
                 /\ s < 16 * ret.val[1] + 16

\* the raw value 0xFFF1 (-15) was read and -1/16 = -0.0625 returned
C38_Witness ==
    /\ Returned("ReadTemperature") /\ tx.status = "OK"
    /\ rawData = <<255, 241>> /\ ret.val = <<-1, 16>>

\* C39: Init issues one Write of the two bytes [0x01, 0x60] to the sensor;
\* when that write returns OK the cached configuration becomes 0x60 and Init
\* returns true, otherwise the cache keeps its value and Init returns false.
C39_InitWritesConfig ==
    [][ret'.op = "Init" =>
         /\ nTx' = 1
         /\ tx' = WriteTx(m_address, <<1, 96>>, tx'.status)
         /\ tx'.status = "OK" => (m_configCache' = 96 /\ ret'.val = TRUE)
         /\ tx'.status # "OK" => (m_configCache' = m_configCache /\ ret'.val = FALSE)]_vars

\* an Init that timed out after an earlier Init had succeeded: it returned
\* false and the cache still holds 0x60
C39_Witness ==
    /\ Returned("Init") /\ ret.val = FALSE /\ tx.status = "Timeout"
    /\ m_configCache = 96

\* 7-bit bus addresses other than the EEPROM's 0x50
OtherAddrs == {0, TMP100_I2C_ADDR, 79, 81, 127}

\* C35: MockI2C answers Nack to every Write and WriteRead addressed to
\* anything but 0x50 and to every plain Read at any address; so in main the
\* sensor's Init has failed (g_initSuccess false, nothing cached), no sensor
\* read succeeds (g_readSuccess is never true) and the value of every log
\* cycle is the placeholder 20 + n / 100.
C35_SensorAlwaysFailsOnMock ==
    /\ \A dev \in OtherAddrs :
         \A d \in {<<>>, <<REG_CONFIG, Bits_12>>, <<0, 0, 1, 104>>} :
            MockWriteF(DeviceState, dev, d).status = "Nack"
    /\ \A dev \in OtherAddrs \cup {EEPROM_I2C_ADDR} :
         MockI2C_Read(dev, <<255, 255>>, 2).status = "Nack"
    /\ MockSensorWriteRead.status = "Nack"
    /\ ~g_initSuccess
    /\ m_configCache = 0
    /\ ~g_readSuccess
    /\ g_sampleCount > 0 =>
         /\ temperature = Placeholder(g_sampleCount - 1)
         /\ temp = temperature
         /\ rawData = <<0, 0>>

\* three cycles have run: the third logged 20.02 after a failed sensor read
C35_Witness ==
    /\ mpc = "while" /\ g_sampleCount = 3
    /\ ~g_initSuccess /\ ~g_readSuccess
    /\ temperature = <<2002, 100>> /\ temp = <<2002, 100>>
    /\ memAddr = 4 /\ g_writeSuccess
Wrapped == ~U32Geq(currentTime, lastLogTime)

\* C37: the interval test subtracts modulo 2^32, so it is right across a wrap
\* of the elapsed-seconds counter: whatever the reading kept in lastLogTime,
\* after e < 2^32 seconds (currentTime - lastLogTime) mod 2^32 is e, and the
\* test triggers exactly when e >= 600; without a wrap it is the test on the
\* plain difference.
C37_IntervalTestAcrossWrap ==
    mpc \in {"triggered", "skipped"} =>
        /\ U32Sub(currentTime, lastLogTime) = ToU32(step)
        /\ (mpc = "triggered") <=> (step >= 600)
        /\ (~Wrapped /\ currentTime[1] < 32768) =>
             ((mpc = "triggered") <=>
                IntervalElapsed(currentTime[1] * 65536 + currentTime[2],
                                lastLogTime[1] * 65536 + lastLogTime[2]))

\* 600 seconds after the reading 2^32 - 536 the counter reads 64 and the test
\* triggers
C37_Witness ==
    /\ mpc = "triggered" /\ step = 600
    /\ lastLogTime = <<65535, 65000>> /\ currentTime = <<0, 64>>
    /\ Wrapped

====
